---- MODULE Spec2Model ----
(***************************************************************************)
(* Model of server.py: the session-authentication gateway.  One browser    *)
(* session (Flask `session`), the JWKS fetched at start-up, the clock, and *)
(* one action per route.  External collaborators (identity provider,       *)
(* Management API, backend) are inputs drawn from small sets.              *)
(***************************************************************************)
EXTENDS Integers, Sequences, FiniteSets, TLC

(* ------------------------------ bounds -------------------------------- *)
MaxTime == 2          \* the clock runs over 0..MaxTime
MaxExp == 1           \* tokens carry an expiry in 1..MaxExp

(* --------------------------- value universe --------------------------- *)
None == "None"        \* Python None / an absent key, where the values are strings
Absent == <<>>        \* the same, where the values are records or sets
Present(v) == <<v>>
Val(o) == o[1]
Users == {"auth0|u1", "auth0|u2"}
PermLists == {Absent, Present({"admin"}), Present({"read:sim"})}
Handles == {"h1", "h2"}
BackendErrors == {[status |-> 500, text |-> "db down"]}

AUTH0_AUDIENCE == "https://tipsweb/api"
AUTH0_ISSUER == "https://tenant.auth0.com/"
ERROR_NOT_AUTHENTICATED == "Not authenticated"

\* the email the provider holds for a subject id
MailOf(sub) == IF sub = "auth0|u1" THEN "u1@example.org" ELSE "u2@example.org"

\* src/server.py:40 -- the key set fetched once at start-up
jwks == <<[kid |-> "k1", material |-> "pub-k1"]>>

(* A bearer token, by what the validator can observe of it: whether it     *)
(* parses as a JWS, its header (kid, alg), the key that signed it and its  *)
(* claims.                                                                 *)
JwtTokens ==
  [form : {"jws"}, kid : {"k1", "kx", None}, alg : {"RS256", "HS256"},
   signer : {"k1", "kx"},
   iss : {AUTH0_ISSUER, "https://evil.example/"},
   aud : {AUTH0_AUDIENCE, "https://other/api"},
   exp : 1..MaxExp, sub : Users, permissions : PermLists,
   email : {None, "claim"}]

MalformedToken ==
  [form |-> "garbage", kid |-> None, alg |-> "RS256", signer |-> "kx",
   iss |-> AUTH0_ISSUER, aud |-> AUTH0_AUDIENCE, exp |-> 1,
   sub |-> "auth0|u1", permissions |-> Present({"admin"}), email |-> None]

Tokens == JwtTokens \cup {MalformedToken}

\* what the token carries in its payload
Payload(t) == [sub |-> t.sub, iss |-> t.iss, aud |-> t.aud, exp |-> t.exp,
               permissions |-> t.permissions,
               email |-> IF t.email = None THEN None ELSE MailOf(t.sub)]

\* dict.get(key, default) on a key whose value is a list
DictGet(d, k, default) == IF d[k] = Absent THEN default ELSE Val(d[k])

(* ------------------------- token validation --------------------------- *)
Return(v) == [kind |-> "return", value |-> v]
ReturnNone == [kind |-> "None"]
Raise(e) == [kind |-> "raise", exc |-> e]

\* jws.get_unverified_header
get_unverified_header(token) ==
  IF token.form = "jws" THEN Return([kid |-> token.kid, alg |-> token.alg])
  ELSE Raise("JWSError")

RECURSIVE FindFrom(_, _, _)
FindFrom(keys, i, kid) ==
  IF i > Len(keys) THEN Absent
  ELSE IF keys[i].kid = kid THEN Present(keys[i])
  ELSE FindFrom(keys, i + 1, kid)

find_public_key(kid) == FindFrom(jwks, 1, kid)

(* jwt.decode(token, key, audience, issuer, algorithms="RS256"): the       *)
(* algorithm check and the signature come first, then the claims.  A key   *)
(* of None cannot be turned into an RSA key: that is a JWKError, which is  *)
(* neither a JWSError nor a JWTError.  exp is rejected when exp < now.     *)
jwt_decode(token, key, audience, issuer, time) ==
  IF token.alg # "RS256" THEN Raise("JWTError")
  ELSE IF key = Absent THEN Raise("JWKError")
  ELSE IF token.signer # Val(key).kid THEN Raise("JWTError")
  ELSE IF token.exp < time THEN Raise("ExpiredSignatureError")
  ELSE IF token.aud # audience THEN Raise("JWTClaimsError")
  ELSE IF token.iss # issuer THEN Raise("JWTClaimsError")
  ELSE Return(Payload(token))

\* the exception classes that `except (JWTError, JWSError)` catches
CaughtByValidate ==
  {"JWTError", "JWSError", "ExpiredSignatureError", "JWTClaimsError"}

validate_token(token, time) ==
  LET header == get_unverified_header(token) IN
  IF header.kind = "raise" THEN ReturnNone
  ELSE LET public_key == find_public_key(header.value.kid)
           r == jwt_decode(token, public_key, AUTH0_AUDIENCE, AUTH0_ISSUER, time)
       IN IF r.kind = "raise"
          THEN IF r.exc \in CaughtByValidate THEN ReturnNone ELSE r
          ELSE r

(* ------------------------------- state -------------------------------- *)
VARIABLES
  session,       \* the browser's Flask session: user, simulation_session, return_to
  now,           \* the clock the validator reads
  resp,          \* observation: the response to the request just served
  trace,         \* observation: the external calls that request made, in order
  handleLogin,   \* history: was the handle stored under the current login
  vin,           \* validator harness: the token and the time it is handed
  vout,          \* validator harness: what validate_token did with them
  reqPc,         \* two requests in flight: where each one is in its handler
  reqSession,    \* two requests in flight: each request's own copy of the session
  reqEmail,      \* two requests in flight: the email each one resolved
  backendSessions,   \* the users the backend holds a simulation session for
  startAfterDelete,  \* history: start's POST came after logout's DELETE or its skipping
  cookies,       \* two browsers: the session each browser's cookie carries
  aloneSessions, \* two browsers: the session each reaches on its own requests alone
  keySet         \* two browsers: the module-level jwks that every request reads

inflight == <<reqPc, reqSession, reqEmail, backendSessions, startAfterDelete>>

twoBrowsers == <<cookies, aloneSessions, keySet>>

vars == <<session, now, resp, trace, handleLogin, vin, vout,
          reqPc, reqSession, reqEmail, backendSessions, startAfterDelete,
          cookies, aloneSessions, keySet>>

EmptySession == [user |-> Absent, simulation_session |-> None, return_to |-> None]

NoResp == [route |-> "none", status |-> 0, body |-> [none |-> TRUE]]
Resp(route, status, body) == [route |-> route, status |-> status, body |-> body]
Redirect(route, location) == Resp(route, 302, [location |-> location])
\* an exception that leaves the view function: Flask answers 500
Fault(route, exc) == Resp(route, 500, [unhandled |-> exc])
NotAuthenticated(route) == Resp(route, 401, [error |-> <<ERROR_NOT_AUTHENTICATED>>])

LOGIN_URL == "/login"
INDEX_URL == "/"
LOGOUT_URL == "https://tenant.auth0.com/v2/logout?returnTo=/"
AUTHORIZE_URL == "https://tenant.auth0.com/authorize"

(* --------------------------- external calls --------------------------- *)
\* what the token endpoint can hand back on a code exchange
WellFormed(t) ==
  /\ t.form = "jws" /\ t.kid = "k1" /\ t.alg = "RS256" /\ t.signer = "k1"
  /\ t.iss = AUTH0_ISSUER /\ t.aud = AUTH0_AUDIENCE

\* a token of the provider that claims admin, and its defective variants
AdminToken(e) ==
  [form |-> "jws", kid |-> "k1", alg |-> "RS256", signer |-> "k1",
   iss |-> AUTH0_ISSUER, aud |-> AUTH0_AUDIENCE, exp |-> e,
   sub |-> "auth0|u1", permissions |-> Present({"admin"}), email |-> None]

Defective(t) ==
  {[t EXCEPT !.kid = "kx", !.signer = "kx"], [t EXCEPT !.kid = None],
   [t EXCEPT !.signer = "kx"], [t EXCEPT !.alg = "HS256"],
   [t EXCEPT !.iss = "https://evil.example/"], [t EXCEPT !.aud = "https://other/api"],
   MalformedToken}

\* the provider's own tokens with every payload, and each defect once
ExchangedTokens ==
  {t \in Tokens : WellFormed(t)} \cup UNION {Defective(AdminToken(e)) : e \in 1..MaxExp}

TokenSets ==
  {[access_token |-> t, token_type |-> "Bearer"] : t \in ExchangedTokens}
    \cup {[token_type |-> "Bearer"]}

ExchangeOutcomes ==
  {[kind |-> "HTTPError"], [kind |-> "OAuthError"]}
    \cup {[kind |-> "token", token |-> ts] : ts \in TokenSets}

MgmtOutcomes ==
  {"token_unreachable", "token_refused", "user_unreachable",
   "user_without_email", "user_found"}

BackendOutcomes ==
  {[kind |-> "ok", status |-> 200, data |-> h] : h \in Handles}
    \cup {[kind |-> "error", status |-> e.status, text |-> e.text] : e \in BackendErrors}
    \cup {[kind |-> "unreachable"]}

MgmtCall(op, arg, result) == [to |-> "mgmt", op |-> op, arg |-> arg, result |-> result]
BackendCall(op, email, b) == [to |-> "backend", op |-> op, user |-> email, result |-> b]

(* ------------------------------ helpers ------------------------------- *)
\* variant of get_current_user_id: reads the subject without validating again
get_current_user_id_trusting(user, time) ==
  IF user = Absent THEN ReturnNone
  ELSE IF "token" \notin DOMAIN Val(user) THEN ReturnNone
  ELSE Return(Payload(Val(user).token.access_token).sub)

\* get_current_user_id, on the session's user at a given time
get_current_user_id(user, time) ==
  IF user = Absent THEN ReturnNone
  ELSE IF "token" \notin DOMAIN Val(user) THEN ReturnNone
  ELSE LET token_payload == validate_token(Val(user).token.access_token, time) IN
       IF token_payload.kind = "raise" THEN token_payload
       ELSE IF token_payload.kind = "None" THEN ReturnNone
       ELSE Return(token_payload.value.sub)

\* get_user_email_from_auth0: the result and the calls it made
get_user_email_from_auth0(user_id, m) ==
  LET post(r) == MgmtCall("POST /oauth/token", "client_credentials", r)
      get(r) == MgmtCall("GET /api/v2/users/", user_id, r)
  IN CASE m = "token_unreachable" ->
            [result |-> Raise("RequestException"), calls |-> <<post("unreachable")>>]
       [] m = "token_refused" ->
            [result |-> ReturnNone, calls |-> <<post("refused")>>]
       [] m = "user_unreachable" ->
            [result |-> Raise("RequestException"),
             calls |-> <<post("ok"), get("unreachable")>>]
       [] m = "user_without_email" ->
            [result |-> ReturnNone, calls |-> <<post("ok"), get("no email")>>]
       [] m = "user_found" ->
            [result |-> Return(MailOf(user_id)), calls |-> <<post("ok"), get("ok")>>]

(* ------------------------------- routes ------------------------------- *)
Served(sess, response, calls) == [session |-> sess, resp |-> response, trace |-> calls]

\* GET /login
login(sess, return_to) ==
  Served(IF return_to # None THEN [sess EXCEPT !.return_to = return_to] ELSE sess,
         Redirect("/login", AUTHORIZE_URL),
         <<[to |-> "request", op |-> "return_to", result |-> return_to]>>)

\* variant of callback: permissions read from the token without validating it
callback_unverified_claims(sess, x, time) ==
  LET exchange == [to |-> "provider", op |-> "authorize_access_token", result |-> x]
      refuse(exc) == Served(sess, Resp("/callback", 401, [text |-> exc]), <<exchange>>)
  IN IF x.kind = "HTTPError" THEN refuse("HTTPError")
     ELSE IF x.kind = "OAuthError" THEN refuse("OAuthError")
     ELSE IF "access_token" \notin DOMAIN x.token THEN refuse("KeyError")
     ELSE IF x.token.access_token.form # "jws" THEN refuse("JWTError")
     ELSE Served([sess EXCEPT
                    !.user = Present([token |-> x.token,
                                      permissions |->
                                        DictGet(Payload(x.token.access_token),
                                                "permissions", {})]),
                    !.return_to = None],
                 Redirect("/callback",
                          IF sess.return_to # None THEN sess.return_to ELSE INDEX_URL),
                 <<exchange>>)

\* variant of callback: a rejected token is treated as one with no claims
callback_lenient(sess, x, time) ==
  LET exchange == [to |-> "provider", op |-> "authorize_access_token", result |-> x]
      refuse(exc) == Served(sess, Resp("/callback", 401, [text |-> exc]), <<exchange>>)
  IN IF x.kind = "HTTPError" THEN refuse("HTTPError")
     ELSE IF x.kind = "OAuthError" THEN refuse("OAuthError")
     ELSE IF "access_token" \notin DOMAIN x.token THEN refuse("KeyError")
     ELSE LET token_payload == validate_token(x.token.access_token, time) IN
          IF token_payload.kind = "raise" THEN refuse(token_payload.exc)
          ELSE Served([sess EXCEPT
                         !.user = Present([token |-> x.token,
                                           permissions |->
                                             IF token_payload.kind = "None" THEN {}
                                             ELSE DictGet(token_payload.value,
                                                          "permissions", {})]),
                         !.return_to = None],
                      Redirect("/callback",
                               IF sess.return_to # None THEN sess.return_to ELSE INDEX_URL),
                      <<exchange>>)

\* variant of callback: a re-login keeps the permissions already stored
callback_keeping_permissions(sess, x, time) ==
  LET exchange == [to |-> "provider", op |-> "authorize_access_token", result |-> x]
      refuse(exc) == Served(sess, Resp("/callback", 401, [text |-> exc]), <<exchange>>)
  IN IF x.kind = "HTTPError" THEN refuse("HTTPError")
     ELSE IF x.kind = "OAuthError" THEN refuse("OAuthError")
     ELSE IF "access_token" \notin DOMAIN x.token THEN refuse("KeyError")
     ELSE LET token_payload == validate_token(x.token.access_token, time) IN
          IF token_payload.kind = "raise" THEN refuse(token_payload.exc)
          ELSE IF token_payload.kind = "None" THEN refuse("AttributeError")
          ELSE Served([sess EXCEPT
                         !.user = Present([token |-> x.token,
                                           permissions |->
                                             IF sess.user # Absent
                                             THEN Val(sess.user).permissions
                                             ELSE DictGet(token_payload.value,
                                                          "permissions", {})]),
                         !.return_to = None],
                      Redirect("/callback",
                               IF sess.return_to # None THEN sess.return_to ELSE INDEX_URL),
                      <<exchange>>)

\* GET|POST /callback
callback(sess, x, time) ==
  LET exchange == [to |-> "provider", op |-> "authorize_access_token", result |-> x]
      refuse(exc) == Served(sess, Resp("/callback", 401, [text |-> exc]), <<exchange>>)
  IN IF x.kind = "HTTPError" THEN refuse("HTTPError")
     ELSE IF x.kind = "OAuthError" THEN refuse("OAuthError")
     ELSE IF "access_token" \notin DOMAIN x.token THEN refuse("KeyError")
     ELSE LET token_payload == validate_token(x.token.access_token, time) IN
          IF token_payload.kind = "raise" THEN refuse(token_payload.exc)
          ELSE IF token_payload.kind = "None" THEN refuse("AttributeError")
          ELSE Served([sess EXCEPT
                         !.user = Present([token |-> x.token,
                                           permissions |->
                                             DictGet(token_payload.value, "permissions", {})]),
                         !.return_to = None],
                      Redirect("/callback",
                               IF sess.return_to # None THEN sess.return_to ELSE INDEX_URL),
                      <<exchange>>)

\* variant of logout: a failed backend deletion ends the request
logout_blocking(sess, m, b, time) ==
  LET user_id == get_current_user_id(sess.user, time)
      cleared == [to |-> "session", op |-> "clear"]
      done(calls) == Served(EmptySession, Redirect("/logout", LOGOUT_URL),
                            calls \o <<cleared>>)
  IN IF user_id.kind = "raise" THEN Served(sess, Fault("/logout", user_id.exc), <<>>)
     ELSE IF user_id.kind = "None" THEN done(<<>>)
     ELSE LET lookup == get_user_email_from_auth0(user_id.value, m)
              sent == lookup.calls \o
                        <<BackendCall("DELETE /delete_session", lookup.result.value, b)>>
          IN IF lookup.result.kind # "return" THEN done(lookup.calls)
             ELSE IF b.kind = "unreachable"
             THEN Served(sess, Fault("/logout", "RequestException"), sent)
             ELSE done(sent)

\* GET /logout
logout(sess, m, b, time) ==
  LET user_id == get_current_user_id(sess.user, time)
      cleared == [to |-> "session", op |-> "clear"]
      done(calls) == Served(EmptySession, Redirect("/logout", LOGOUT_URL),
                            calls \o <<cleared>>)
  IN IF user_id.kind = "raise" THEN Served(sess, Fault("/logout", user_id.exc), <<>>)
     ELSE IF user_id.kind = "None" THEN done(<<>>)
     ELSE LET lookup == get_user_email_from_auth0(user_id.value, m) IN
          IF lookup.result.kind # "return" THEN done(lookup.calls)
          ELSE done(lookup.calls \o
                    <<BackendCall("DELETE /delete_session", lookup.result.value, b)>>)

\* the error bodies of the three proxy routes
BackendReturned(b) == [error |-> <<"Backend service returned ", b.status, ": ", b.text>>]
FailedToConnect == [error |-> <<"Failed to connect to backend service: ", "RequestException">>]

\* variant of start_forward: the returned handle is not kept
start_forward_forgetful(sess, email, b, calls) ==
  LET route == "/api/start-simulation-session"
      sent == calls \o <<BackendCall("POST /start_session", email, b)>>
  IN IF b.kind = "unreachable" THEN Served(sess, Resp(route, 503, FailedToConnect), sent)
     ELSE IF b.status = 200
     THEN Served(sess, Resp(route, 200, [session_data |-> b.data]), sent)
     ELSE Served(sess, Resp(route, b.status, BackendReturned(b)), sent)

\* start_simulation_session, from the POST to the backend on
start_forward(sess, email, b, calls) ==
  LET route == "/api/start-simulation-session"
      sent == calls \o <<BackendCall("POST /start_session", email, b)>>
  IN IF b.kind = "unreachable" THEN Served(sess, Resp(route, 503, FailedToConnect), sent)
     ELSE IF b.status = 200
     THEN Served([sess EXCEPT !.simulation_session = b.data],
                 Resp(route, 200, [session_data |-> b.data]), sent)
     ELSE Served(sess, Resp(route, b.status, BackendReturned(b)), sent)

\* POST /api/start-simulation-session; the second validation runs at time2
start_simulation_session(sess, m, b, time, time2) ==
  LET route == "/api/start-simulation-session"
      user_id == get_current_user_id(sess.user, time)
  IN IF user_id.kind = "raise" THEN Served(sess, Fault(route, user_id.exc), <<>>)
     ELSE IF user_id.kind = "None" THEN Served(sess, NotAuthenticated(route), <<>>)
     ELSE LET token_payload == validate_token(Val(sess.user).token.access_token, time2) IN
          IF token_payload.kind = "raise"
          THEN Served(sess, Fault(route, token_payload.exc), <<>>)
          ELSE IF token_payload.kind = "None"
          THEN Served(sess, Fault(route, "AttributeError"), <<>>)
          ELSE LET claimed == token_payload.value.email
                   lookup == get_user_email_from_auth0(user_id.value, m)
               IN IF claimed # None THEN start_forward(sess, claimed, b, <<>>)
                  ELSE IF lookup.result.kind = "raise"
                  THEN Served(sess, Fault(route, lookup.result.exc), lookup.calls)
                  ELSE IF lookup.result.kind = "None"
                  THEN Served(sess, Resp(route, 400, [error |-> <<"Failed to retrieve email">>]),
                              lookup.calls)
                  ELSE start_forward(sess, lookup.result.value, b, lookup.calls)

\* variant of get_forward: the retrieved handle is written to the session
get_forward_caching(sess, email, b, calls) ==
  LET route == "/get_session"
      sent == calls \o <<BackendCall("GET /get_session", email, b)>>
  IN IF b.kind = "unreachable" THEN Served(sess, Resp(route, 503, FailedToConnect), sent)
     ELSE IF b.status = 200
     THEN Served([sess EXCEPT !.simulation_session = b.data],
                 Resp(route, 200, [session_data |-> b.data]), sent)
     ELSE Served(sess, Resp(route, b.status, BackendReturned(b)), sent)

\* get_session, from the GET to the backend on
get_forward(sess, email, b, calls) ==
  LET route == "/get_session"
      sent == calls \o <<BackendCall("GET /get_session", email, b)>>
  IN IF b.kind = "unreachable" THEN Served(sess, Resp(route, 503, FailedToConnect), sent)
     ELSE IF b.status = 200
     THEN Served(sess, Resp(route, 200, [session_data |-> b.data]), sent)
     ELSE Served(sess, Resp(route, b.status, BackendReturned(b)), sent)

\* GET /get_session
get_session(sess, m, b, time) ==
  LET route == "/get_session"
      user_id == get_current_user_id(sess.user, time)
  IN IF user_id.kind = "raise" THEN Served(sess, Fault(route, user_id.exc), <<>>)
     ELSE IF user_id.kind = "None" THEN Served(sess, NotAuthenticated(route), <<>>)
     ELSE LET lookup == get_user_email_from_auth0(user_id.value, m) IN
          IF lookup.result.kind = "raise"
          THEN Served(sess, Resp(route, 503, FailedToConnect), lookup.calls)
          ELSE get_forward(sess,
                           IF lookup.result.kind = "None" THEN None ELSE lookup.result.value,
                           b, lookup.calls)

\* variant of delete_forward: the handle stays in the session
delete_forward_keeping(sess, email, b, calls) ==
  LET route == "/delete_session"
      sent == calls \o <<BackendCall("DELETE /delete_session", email, b)>>
  IN IF b.kind = "unreachable" THEN Served(sess, Resp(route, 503, FailedToConnect), sent)
     ELSE IF b.status = 200
     THEN Served(sess, Resp(route, 200, [status |-> "success"]), sent)
     ELSE Served(sess, Resp(route, b.status, BackendReturned(b)), sent)

\* delete_session, from the DELETE to the backend on
delete_forward(sess, email, b, calls) ==
  LET route == "/delete_session"
      sent == calls \o <<BackendCall("DELETE /delete_session", email, b)>>
  IN IF b.kind = "unreachable" THEN Served(sess, Resp(route, 503, FailedToConnect), sent)
     ELSE IF b.status = 200
     THEN Served([sess EXCEPT !.simulation_session = None],
                 Resp(route, 200, [status |-> "success"]), sent)
     ELSE Served(sess, Resp(route, b.status, BackendReturned(b)), sent)

\* POST /delete_session
delete_session(sess, m, b, time) ==
  LET route == "/delete_session"
      user_id == get_current_user_id(sess.user, time)
  IN IF user_id.kind = "raise" THEN Served(sess, Fault(route, user_id.exc), <<>>)
     ELSE IF user_id.kind = "None" THEN Served(sess, NotAuthenticated(route), <<>>)
     ELSE LET lookup == get_user_email_from_auth0(user_id.value, m) IN
          IF lookup.result.kind = "raise"
          THEN Served(sess, Resp(route, 503, FailedToConnect), lookup.calls)
          ELSE delete_forward(sess,
                              IF lookup.result.kind = "None" THEN None
                              ELSE lookup.result.value,
                              b, lookup.calls)

\* GET /launch-app
launch_app(sess) ==
  IF sess.user = Absent
  THEN Served(sess, Redirect("/launch-app", "/login?return_to=/launch-app"), <<>>)
  ELSE Served(sess, Resp("/launch-app", 200, [page |-> "launch-app.html"]), <<>>)

\* variant of requires_admin: trusts the permissions stored at login
requires_admin_snapshot(sess, time) ==
  IF sess.user = Absent \/ "token" \notin DOMAIN Val(sess.user) THEN "login"
  ELSE IF "admin" \in Val(sess.user).permissions THEN "invoke"
  ELSE "index"

\* the decision of the requires_admin decorator
requires_admin(sess, time) ==
  IF sess.user = Absent \/ "token" \notin DOMAIN Val(sess.user) THEN "login"
  ELSE LET token_payload == validate_token(Val(sess.user).token.access_token, time) IN
       IF token_payload.kind = "raise" THEN "raise"
       ELSE IF /\ token_payload.kind = "return"
               /\ "admin" \in DictGet(token_payload.value, "permissions", {})
       THEN "invoke"
       ELSE "index"

AdminOutcomes == {"token_unreachable", "token_error", "users_unreachable", "users"}

\* GET /admin: the guard, then admin_dashboard
admin_dashboard(sess, a, time) ==
  LET route == "/admin"
      guard == requires_admin(sess, time)
      invoked == [to |-> "view", op |-> "admin_dashboard"]
      post(r) == MgmtCall("POST /oauth/token", "read:users", r)
      get(r) == MgmtCall("GET /api/v2/users", "", r)
  IN IF guard = "login" THEN Served(sess, Redirect(route, LOGIN_URL), <<>>)
     ELSE IF guard = "index" THEN Served(sess, Redirect(route, INDEX_URL), <<>>)
     ELSE IF guard = "raise" THEN Served(sess, Fault(route, "JWKError"), <<>>)
     ELSE CASE a = "token_unreachable" ->
                 Served(sess, Fault(route, "RequestException"),
                        <<invoked, post("unreachable")>>)
            [] a = "token_error" ->
                 Served(sess, Resp(route, 200, [page |-> "admin-dash.html", error |-> TRUE]),
                        <<invoked, post("error")>>)
            [] a = "users_unreachable" ->
                 Served(sess, Fault(route, "RequestException"),
                        <<invoked, post("ok"), get("unreachable")>>)
            [] a = "users" ->
                 Served(sess, Resp(route, 200, [page |-> "admin-dash.html", error |-> FALSE]),
                        <<invoked, post("ok"), get("ok")>>)

\* the Authorization header of a request: not sent, or sent with a value
\* that is empty or splits on whitespace into these words
NoHeader == [given |-> FALSE]
Header(empty, words) == [given |-> TRUE, empty |-> empty, words |-> words]

\* the tokens a client presents: one the provider issued, and each defect once
BearerTokens == {AdminToken(1)} \cup Defective(AdminToken(1))

AuthHeaders ==
  {NoHeader, Header(TRUE, <<>>), Header(FALSE, <<>>), Header(FALSE, <<"Bearer">>)}
    \cup {Header(FALSE, <<"Basic", t>>) : t \in {AdminToken(1)}}
    \cup {Header(FALSE, <<"Bearer", t, "x">>) : t \in {AdminToken(1)}}
    \cup {Header(FALSE, <<"bearer", t>>) : t \in {AdminToken(1)}}
    \cup {Header(FALSE, <<"Bearer", t>>) : t \in BearerTokens}

\* str.lower on the scheme words above
lower(word) ==
  CASE word = "Bearer" -> "bearer"
    [] word = "Basic" -> "basic"
    [] OTHER -> word

\* GET /auth/info
auth_info(sess, auth_header, time) ==
  LET route == "/auth/info"
      received == <<[to |-> "request", op |-> "Authorization", result |-> auth_header]>>
      parts == auth_header.words
  IN IF ~auth_header.given \/ auth_header.empty
     THEN Served(sess, Resp(route, 401, [error |-> <<"Authorization header is missing">>]),
                 received)
     ELSE IF parts = <<>> THEN Served(sess, Fault(route, "IndexError"), received)
     ELSE IF lower(parts[1]) # "bearer" \/ Len(parts) # 2
     THEN Served(sess, Resp(route, 401, [error |-> <<"Invalid Authorization header">>]),
                 received)
     ELSE LET token_payload == validate_token(parts[2], time) IN
          IF token_payload.kind = "raise"
          THEN Served(sess, Resp(route, 400, [error |-> <<token_payload.exc>>]), received)
          ELSE IF token_payload.kind = "None"
          THEN Served(sess, Resp(route, 200, [json |-> Absent]), received)
          ELSE Served(sess, Resp(route, 200, [json |-> Present(token_payload.value)]),
                      received)

\* the user ids a client can put in the path, as sequences of characters
UserIds ==
  {<<"a", "u", "t", "h", "0", "|", "1", "2", "3">>,
   <<"a", "b", "c", ";", "r", "m">>,
   <<"u", "_", "1", "-", "X">>,
   <<"a", "b", "\n">>}

\* the character class [a-zA-Z0-9|_-]
IdChars ==
  {"a", "b", "c", "d", "e", "f", "g", "h", "i", "j", "k", "l", "m",
   "n", "o", "p", "q", "r", "s", "t", "u", "v", "w", "x", "y", "z",
   "A", "B", "C", "D", "E", "F", "G", "H", "I", "J", "K", "L", "M",
   "N", "O", "P", "Q", "R", "S", "T", "U", "V", "W", "X", "Y", "Z",
   "0", "1", "2", "3", "4", "5", "6", "7", "8", "9", "|", "_", "-"}

\* re.match(r'^[a-zA-Z0-9|_-]+$', user_id): one or more characters of the
\* class up to the end of the string, or up to a newline that ends it
re_match(user_id) ==
  LET n == Len(user_id)
      last == IF n > 0 /\ user_id[n] = "\n" THEN n - 1 ELSE n
  IN /\ last >= 1
     /\ \A i \in 1..last : user_id[i] \in IdChars

DeleteOutcomes ==
  {"token_unreachable", "token_refused", "delete_unreachable", "deleted", "delete_failed"}

\* variant of delete_user_view: the user id is not checked
delete_user_view_unchecked(sess, user_id, d) ==
  LET route == "/admin/delete-user"
      invoked == [to |-> "view", op |-> "delete_user", arg |-> user_id]
      post(r) == MgmtCall("POST /oauth/token", "delete:users", r)
      delete(r) == MgmtCall("DELETE /api/v2/users/", user_id, r)
  IN CASE d = "token_unreachable" ->
            Served(sess, Fault(route, "RequestException"),
                   <<invoked, post("unreachable")>>)
       [] d = "token_refused" ->
            Served(sess, Fault(route, "KeyError"), <<invoked, post("refused")>>)
       [] d = "delete_unreachable" ->
            Served(sess, Fault(route, "RequestException"),
                   <<invoked, post("ok"), delete("unreachable")>>)
       [] d = "deleted" ->
            Served(sess, Resp(route, 200, [status |-> "success"]),
                   <<invoked, post("ok"), delete("ok")>>)
       [] d = "delete_failed" ->
            Served(sess, Resp(route, 200, [status |-> "error"]),
                   <<invoked, post("ok"), delete("failed")>>)

\* what delete_user does once the guard has let the request through
delete_user_view(sess, user_id, d) ==
  LET route == "/admin/delete-user"
      invoked == [to |-> "view", op |-> "delete_user", arg |-> user_id]
      post(r) == MgmtCall("POST /oauth/token", "delete:users", r)
      delete(r) == MgmtCall("DELETE /api/v2/users/", user_id, r)
  IN IF ~re_match(user_id)
     THEN Served(sess, Resp(route, 400, [status |-> "error",
                                         message |-> "Invalid user ID format"]),
                 <<invoked>>)
     ELSE CASE d = "token_unreachable" ->
                 Served(sess, Fault(route, "RequestException"),
                        <<invoked, post("unreachable")>>)
            [] d = "token_refused" ->
                 Served(sess, Fault(route, "KeyError"), <<invoked, post("refused")>>)
            [] d = "delete_unreachable" ->
                 Served(sess, Fault(route, "RequestException"),
                        <<invoked, post("ok"), delete("unreachable")>>)
            [] d = "deleted" ->
                 Served(sess, Resp(route, 200, [status |-> "success"]),
                        <<invoked, post("ok"), delete("ok")>>)
            [] d = "delete_failed" ->
                 Served(sess, Resp(route, 200, [status |-> "error"]),
                        <<invoked, post("ok"), delete("failed")>>)

\* DELETE /admin/delete-user/<user_id>: the guard, then delete_user
delete_user(sess, user_id, d, time) ==
  LET route == "/admin/delete-user"
      guard == requires_admin(sess, time)
  IN IF guard = "login" THEN Served(sess, Redirect(route, LOGIN_URL), <<>>)
     ELSE IF guard = "index" THEN Served(sess, Redirect(route, INDEX_URL), <<>>)
     ELSE IF guard = "raise" THEN Served(sess, Fault(route, "JWKError"), <<>>)
     ELSE delete_user_view(sess, user_id, d)

\* the JSON bodies a client posts to create-user
CreateBodies == {"malformed", "without_email", "complete"}
CreateOutcomes ==
  {"token_unreachable", "token_refused", "create_unreachable", "created", "rejected"}

\* POST /admin/create-user: the guard, then create_user
create_user(sess, data, c, time) ==
  LET route == "/admin/create-user"
      guard == requires_admin(sess, time)
      invoked == [to |-> "view", op |-> "create_user", arg |-> data]
      post(r) == MgmtCall("POST /oauth/token", "create:users", r)
      create(r) == MgmtCall("POST /api/v2/users", data, r)
  IN IF guard = "login" THEN Served(sess, Redirect(route, LOGIN_URL), <<>>)
     ELSE IF guard = "index" THEN Served(sess, Redirect(route, INDEX_URL), <<>>)
     ELSE IF guard = "raise" THEN Served(sess, Fault(route, "JWKError"), <<>>)
     ELSE IF data = "malformed"
     THEN Served(sess, Resp(route, 400, [text |-> "Bad Request"]), <<invoked>>)
     ELSE IF c = "token_unreachable"
     THEN Served(sess, Fault(route, "RequestException"), <<invoked, post("unreachable")>>)
     ELSE IF c = "token_refused"
     THEN Served(sess, Fault(route, "KeyError"), <<invoked, post("refused")>>)
     ELSE IF data = "without_email"
     THEN Served(sess, Fault(route, "KeyError"), <<invoked, post("ok")>>)
     ELSE CASE c = "create_unreachable" ->
                 Served(sess, Fault(route, "RequestException"),
                        <<invoked, post("ok"), create("unreachable")>>)
            [] c = "created" ->
                 Served(sess, Resp(route, 200, [status |-> "success"]),
                        <<invoked, post("ok"), create("ok")>>)
            [] c = "rejected" ->
                 Served(sess, Resp(route, 400, [status |-> "error",
                                                message |-> "The user already exists."]),
                        <<invoked, post("ok"), create("rejected")>>)

(* ------------------------------ actions ------------------------------- *)
Serve(r) ==
  /\ session' = r.session
  /\ resp' = r.resp
  /\ trace' = r.trace
  /\ UNCHANGED <<vin, vout>>
  /\ UNCHANGED inflight
  /\ UNCHANGED twoBrowsers

\* the clock advances between two requests; the observation of the last
\* request is dropped, so resp and trace always describe a request served
\* at the current time
Tick ==
  /\ now < MaxTime
  /\ now' = now + 1
  /\ resp' = NoResp
  /\ trace' = <<>>
  /\ UNCHANGED <<session, handleLogin, vin, vout>>
  /\ UNCHANGED inflight
  /\ UNCHANGED twoBrowsers

Login ==
  \E return_to \in {None, "/launch-app"} :
    /\ Serve(login(session, return_to))
    /\ UNCHANGED <<now, handleLogin>>

Callback ==
  \E x \in ExchangeOutcomes :
    LET r == callback(session, x, now) IN
    /\ Serve(r)
    /\ handleLogin' = IF r.resp.status = 302 /\ session.simulation_session # None
                      THEN "earlier" ELSE handleLogin
    /\ UNCHANGED now

Logout ==
  \E m \in MgmtOutcomes, b \in BackendOutcomes :
    LET r == logout(session, m, b, now) IN
    /\ Serve(r)
    /\ handleLogin' = IF r.session.simulation_session = None THEN "none" ELSE handleLogin
    /\ UNCHANGED now

StartSimulationSession ==
  \E m \in MgmtOutcomes, b \in BackendOutcomes, d \in 0..1 :
    LET first == get_current_user_id(session.user, now)
        elapsed == IF first.kind = "return" /\ now + d <= MaxTime THEN d ELSE 0
        r == start_simulation_session(session, m, b, now, now + elapsed)
    IN /\ Serve(r)
       /\ now' = now + elapsed
       /\ handleLogin' = IF r.resp.status = 200 THEN "current" ELSE handleLogin

GetSession ==
  \E m \in MgmtOutcomes, b \in BackendOutcomes :
    /\ Serve(get_session(session, m, b, now))
    /\ UNCHANGED <<now, handleLogin>>

DeleteSession ==
  \E m \in MgmtOutcomes, b \in BackendOutcomes :
    LET r == delete_session(session, m, b, now) IN
    /\ Serve(r)
    /\ handleLogin' = IF r.session.simulation_session = None THEN "none" ELSE handleLogin
    /\ UNCHANGED now

LaunchApp ==
  /\ Serve(launch_app(session))
  /\ UNCHANGED <<now, handleLogin>>

AdminDashboard ==
  \E a \in AdminOutcomes :
    /\ Serve(admin_dashboard(session, a, now))
    /\ UNCHANGED <<now, handleLogin>>

AuthInfo ==
  \E auth_header \in AuthHeaders :
    /\ Serve(auth_info(session, auth_header, now))
    /\ UNCHANGED <<now, handleLogin>>

DeleteUser ==
  \E user_id \in UserIds, d \in DeleteOutcomes :
    /\ Serve(delete_user(session, user_id, d, now))
    /\ UNCHANGED <<now, handleLogin>>

CreateUser ==
  \E data \in CreateBodies, c \in CreateOutcomes :
    /\ Serve(create_user(session, data, c, now))
    /\ UNCHANGED <<now, handleLogin>>

Browsers == {"b1", "b2"}

\* both browsers start without a session; the key set is the one fetched
TwoAnonymous ==
  /\ cookies = [c \in Browsers |-> EmptySession]
  /\ aloneSessions = [c \in Browsers |-> EmptySession]
  /\ keySet = jwks

\* no request is in flight
NoneInFlight ==
  /\ reqPc = [logout |-> "idle", start |-> "idle"]
  /\ reqSession = [logout |-> EmptySession, start |-> EmptySession]
  /\ reqEmail = [logout |-> None, start |-> None]
  /\ backendSessions = {}
  /\ startAfterDelete = FALSE

Init ==
  /\ NoneInFlight
  /\ TwoAnonymous
  /\ session = EmptySession
  /\ now = 0
  /\ resp = NoResp
  /\ trace = <<>>
  /\ handleLogin = "none"
  /\ vin = [token |-> MalformedToken, time |-> 0]
  /\ vout = [kind |-> "idle"]

Next ==
  \/ Tick
  \/ Login
  \/ Callback
  \/ Logout
  \/ StartSimulationSession
  \/ GetSession
  \/ DeleteSession
  \/ LaunchApp
  \/ AdminDashboard
  \/ AuthInfo
  \/ DeleteUser
  \/ CreateUser

Spec == Init /\ [][Next]_vars

(* The validator on its own: any token, at any time. *)
InitV ==
  /\ NoneInFlight
  /\ TwoAnonymous
  /\ session = EmptySession
  /\ now = 0
  /\ resp = NoResp
  /\ trace = <<>>
  /\ handleLogin = "none"
  /\ vin \in [token : Tokens, time : 0..MaxTime]
  /\ vout = [kind |-> "pending"]

Validate ==
  /\ vout.kind = "pending"
  /\ vout' = validate_token(vin.token, vin.time)
  /\ UNCHANGED <<session, now, resp, trace, handleLogin, vin>>
  /\ UNCHANGED inflight
  /\ UNCHANGED twoBrowsers

NextV == Validate

SpecV == InitV /\ [][NextV]_vars

(* A /logout and a /api/start-simulation-session of the same browser in   *)
(* flight together.  The server runs each request in its own thread; each  *)
(* request works on the copy of the cookie session it loaded when it       *)
(* began, and a response that modified its copy replaces the browser's     *)
(* cookie.  No handler takes a lock.                                       *)
UNCHANGED_observed ==
  /\ UNCHANGED <<resp, trace, handleLogin, vin, vout>>
  /\ UNCHANGED twoBrowsers

\* the sessions of a logged-in browser
LoggedInSessions ==
  {[user |-> Present([token |-> [access_token |-> t, token_type |-> "Bearer"],
                      permissions |-> DictGet(Payload(t), "permissions", {})]),
    simulation_session |-> h, return_to |-> None] :
     t \in {[AdminToken(e) EXCEPT !.email = c] : e \in 1..MaxExp, c \in {None, "claim"}},
     h \in {None, "h1"}}

At(request, label) == reqPc' = [reqPc EXCEPT ![request] = label]

\* logout: the request begins and get_current_user_id validates the token
LogoutBegin ==
  /\ reqPc.logout = "idle"
  /\ reqSession' = [reqSession EXCEPT !.logout = session]
  /\ LET user_id == get_current_user_id(session.user, now) IN
     At("logout", CASE user_id.kind = "return" -> "lookup"
                    [] user_id.kind = "None" -> "clear"
                    [] OTHER -> "done")
  /\ UNCHANGED <<session, now, reqEmail, backendSessions, startAfterDelete>>
  /\ UNCHANGED_observed

\* logout: get_user_email_from_auth0; any failure skips the deletion
LogoutLookup ==
  \E m \in MgmtOutcomes :
    LET user_id == Payload(Val(reqSession.logout.user).token.access_token).sub
        lookup == get_user_email_from_auth0(user_id, m)
    IN /\ reqPc.logout = "lookup"
       /\ IF lookup.result.kind = "return"
          THEN /\ reqEmail' = [reqEmail EXCEPT !.logout = lookup.result.value]
               /\ At("logout", "delete")
          ELSE /\ UNCHANGED reqEmail
               /\ At("logout", "clear")
       /\ UNCHANGED <<session, now, reqSession, backendSessions, startAfterDelete>>
       /\ UNCHANGED_observed

\* logout: the DELETE to the backend, whose outcome does not stop the logout
LogoutDelete ==
  \E b \in BackendOutcomes :
    /\ reqPc.logout = "delete"
    /\ backendSessions' = IF b.kind = "ok" THEN backendSessions \ {reqEmail.logout}
                          ELSE backendSessions
    /\ At("logout", "clear")
    /\ UNCHANGED <<session, now, reqSession, reqEmail, startAfterDelete>>
    /\ UNCHANGED_observed

\* logout: session.clear() and the response, which resets the cookie
LogoutRespond ==
  /\ reqPc.logout = "clear"
  /\ reqSession' = [reqSession EXCEPT !.logout = EmptySession]
  /\ session' = EmptySession
  /\ At("logout", "done")
  /\ UNCHANGED <<now, reqEmail, backendSessions, startAfterDelete>>
  /\ UNCHANGED_observed

\* start: the request begins and get_current_user_id validates the token
StartBegin ==
  /\ reqPc.start = "idle"
  /\ reqSession' = [reqSession EXCEPT !.start = session]
  /\ LET user_id == get_current_user_id(session.user, now) IN
     At("start", IF user_id.kind = "return" THEN "resolve" ELSE "done")
  /\ UNCHANGED <<session, now, reqEmail, backendSessions, startAfterDelete>>
  /\ UNCHANGED_observed

\* start: the second validation, then the email claim or the lookup
StartResolve ==
  \E m \in MgmtOutcomes :
    LET token == Val(reqSession.start.user).token.access_token
        token_payload == validate_token(token, now)
        lookup == get_user_email_from_auth0(Payload(token).sub, m)
        user_email == IF token_payload.kind # "return" THEN None
                      ELSE IF token_payload.value.email # None
                      THEN token_payload.value.email
                      ELSE IF lookup.result.kind = "return" THEN lookup.result.value
                      ELSE None
    IN /\ reqPc.start = "resolve"
       /\ reqEmail' = [reqEmail EXCEPT !.start = user_email]
       /\ At("start", IF user_email = None THEN "done" ELSE "post")
       /\ UNCHANGED <<session, now, reqSession, backendSessions, startAfterDelete>>
       /\ UNCHANGED_observed

\* variant of StartPost: the POST waits while a logout is in flight
StartPost_serialized ==
  \E b \in BackendOutcomes :
    LET r == start_forward(reqSession.start, reqEmail.start, b, <<>>) IN
    /\ reqPc.start = "post"
    /\ reqPc.logout \in {"idle", "done"}
    /\ reqSession' = [reqSession EXCEPT !.start = r.session]
    /\ IF b.kind = "ok"
       THEN /\ backendSessions' = backendSessions \cup {reqEmail.start}
            /\ startAfterDelete' = (reqPc.logout \in {"clear", "done"})
            /\ At("start", "respond")
       ELSE /\ UNCHANGED <<backendSessions, startAfterDelete>>
            /\ At("start", "done")
    /\ UNCHANGED <<session, now, reqEmail>>
    /\ UNCHANGED_observed

\* start: the POST to the backend; a 200 puts the handle in the request's session
StartPost ==
  \E b \in BackendOutcomes :
    LET r == start_forward(reqSession.start, reqEmail.start, b, <<>>) IN
    /\ reqPc.start = "post"
    /\ reqSession' = [reqSession EXCEPT !.start = r.session]
    /\ IF b.kind = "ok"
       THEN /\ backendSessions' = backendSessions \cup {reqEmail.start}
            /\ startAfterDelete' = (reqPc.logout \in {"clear", "done"})
            /\ At("start", "respond")
       ELSE /\ UNCHANGED <<backendSessions, startAfterDelete>>
            /\ At("start", "done")
    /\ UNCHANGED <<session, now, reqEmail>>
    /\ UNCHANGED_observed

\* start: the 200 response carries the modified session back as the cookie
StartRespond ==
  /\ reqPc.start = "respond"
  /\ session' = reqSession.start
  /\ At("start", "done")
  /\ UNCHANGED <<now, reqSession, reqEmail, backendSessions, startAfterDelete>>
  /\ UNCHANGED_observed

InitC ==
  /\ TwoAnonymous
  /\ session \in LoggedInSessions
  /\ now = 0
  /\ resp = NoResp
  /\ trace = <<>>
  /\ handleLogin = IF session.simulation_session = None THEN "none" ELSE "current"
  /\ vin = [token |-> MalformedToken, time |-> 0]
  /\ vout = [kind |-> "idle"]
  /\ reqPc = [logout |-> "idle", start |-> "idle"]
  /\ reqSession = [logout |-> EmptySession, start |-> EmptySession]
  /\ reqEmail = [logout |-> None, start |-> None]
  /\ backendSessions = IF session.simulation_session = None THEN {}
                       ELSE {MailOf(Val(session.user).token.access_token.sub)}
  /\ startAfterDelete = FALSE

NextC ==
  \/ Tick
  \/ LogoutBegin
  \/ LogoutLookup
  \/ LogoutDelete
  \/ LogoutRespond
  \/ StartBegin
  \/ StartResolve
  \/ StartPost
  \/ StartRespond

SpecC == InitC /\ [][NextC]_vars

(* Two browsers on the same server.  Flask's `session` is the session of   *)
(* the request being served, loaded from that browser's cookie and written *)
(* back to it; the only module-level value the handlers share is jwks,     *)
(* which they read.  aloneSessions replays each browser's own requests,    *)
(* with the same inputs at the same times, on a session no one else uses.  *)
BrowserTokens ==
  {AdminToken(e) : e \in 1..MaxExp}
    \cup {[AdminToken(e) EXCEPT !.sub = "auth0|u2", !.permissions = Present({"read:sim"}),
                                !.email = "claim"] : e \in 1..MaxExp}
    \cup {[AdminToken(1) EXCEPT !.signer = "kx"]}

BrowserExchanges ==
  {[kind |-> "HTTPError"]}
    \cup {[kind |-> "token", token |-> [access_token |-> t, token_type |-> "Bearer"]] :
            t \in BrowserTokens}

\* variant of ServeBrowser: one session object serves every browser
ServeBrowser_shared(c, r, ra) ==
  /\ cookies' = [d \in Browsers |-> r.session]
  /\ aloneSessions' = [aloneSessions EXCEPT ![c] = ra.session]
  /\ resp' = r.resp
  /\ UNCHANGED <<keySet, session, trace, handleLogin, vin, vout>>
  /\ UNCHANGED inflight

\* browser c is served r; ra is the same request served to c running alone
ServeBrowser(c, r, ra) ==
  /\ cookies' = [cookies EXCEPT ![c] = r.session]
  /\ aloneSessions' = [aloneSessions EXCEPT ![c] = ra.session]
  /\ resp' = r.resp
  /\ UNCHANGED <<keySet, session, trace, handleLogin, vin, vout>>
  /\ UNCHANGED inflight

BrowserLogin ==
  \E c \in Browsers, return_to \in {None, "/launch-app"} :
    /\ ServeBrowser(c, login(cookies[c], return_to), login(aloneSessions[c], return_to))
    /\ UNCHANGED now

BrowserCallback ==
  \E c \in Browsers, x \in BrowserExchanges :
    /\ ServeBrowser(c, callback(cookies[c], x, now), callback(aloneSessions[c], x, now))
    /\ UNCHANGED now

BrowserLogout ==
  \E c \in Browsers, m \in MgmtOutcomes, b \in BackendOutcomes :
    /\ ServeBrowser(c, logout(cookies[c], m, b, now), logout(aloneSessions[c], m, b, now))
    /\ UNCHANGED now

BrowserStart ==
  \E c \in Browsers, m \in MgmtOutcomes, b \in BackendOutcomes, d \in 0..1 :
    LET first == get_current_user_id(cookies[c].user, now)
        elapsed == IF first.kind = "return" /\ now + d <= MaxTime THEN d ELSE 0
    IN /\ ServeBrowser(c,
                       start_simulation_session(cookies[c], m, b, now, now + elapsed),
                       start_simulation_session(aloneSessions[c], m, b, now, now + elapsed))
       /\ now' = now + elapsed

BrowserDelete ==
  \E c \in Browsers, m \in MgmtOutcomes, b \in BackendOutcomes :
    /\ ServeBrowser(c, delete_session(cookies[c], m, b, now),
                       delete_session(aloneSessions[c], m, b, now))
    /\ UNCHANGED now

InitB ==
  /\ NoneInFlight
  /\ TwoAnonymous
  /\ session = EmptySession
  /\ now = 0
  /\ resp = NoResp
  /\ trace = <<>>
  /\ handleLogin = "none"
  /\ vin = [token |-> MalformedToken, time |-> 0]
  /\ vout = [kind |-> "idle"]

NextB ==
  \/ Tick
  \/ BrowserLogin
  \/ BrowserCallback
  \/ BrowserLogout
  \/ BrowserStart
  \/ BrowserDelete

SpecB == InitB /\ [][NextB]_vars

(* ============================== claims ================================ *)
StoredToken == Val(session.user).token.access_token

\* the wrapped view ran during the request just served
Invoked == \E i \in DOMAIN trace : trace[i].to = "view"

\* what the exchange of the callback just served produced
Exchanged == trace[1].result

\* C1: whenever a step leaves the session with a user or permissions it did
\* not hold before, the step is a /callback, validate_token accepted in that
\* request the access token now stored, and the stored permissions are the
\* permissions claim (empty when absent) of that token.
C1_PermissionsFromValidatedToken ==
  [][ (session'.user # Absent /\ session'.user # session.user) =>
        /\ resp'.route = "/callback"
        /\ Exchanged'.kind = "token"
        /\ Val(session'.user).token = Exchanged'.token
        /\ LET accepted == validate_token(Exchanged'.token.access_token, now) IN
           /\ accepted.kind = "return"
           /\ Val(session'.user).permissions =
                DictGet(accepted.value, "permissions", {}) ]_vars

\* a callback has just stored a user with the admin permission
C1_Witness ==
  /\ resp.route = "/callback" /\ resp.status = 302
  /\ session.user # Absent
  /\ Val(session.user).permissions = {"admin"}

\* C2: after a request to /admin, the view was invoked exactly when the
\* stored token validated at that time with "admin" among its claims; with
\* no user the answer is a redirect to /login, otherwise a redirect to /.
C2_GuardRevalidates ==
  resp.route = "/admin" =>
    IF session.user = Absent
    THEN resp = Redirect("/admin", LOGIN_URL) /\ ~Invoked
    ELSE LET fresh == validate_token(StoredToken, now) IN
         IF fresh.kind = "return" /\ "admin" \in DictGet(fresh.value, "permissions", {})
         THEN Invoked
         ELSE resp = Redirect("/admin", INDEX_URL) /\ ~Invoked

\* the session still says admin, the token has expired, /admin redirected to /
C2_Witness ==
  /\ resp = Redirect("/admin", INDEX_URL)
  /\ session.user # Absent
  /\ "admin" \in Val(session.user).permissions
  /\ validate_token(StoredToken, now).kind = "None"

ExchangeValidated(time) ==
  /\ Exchanged.kind = "token"
  /\ "access_token" \in DOMAIN Exchanged.token
  /\ validate_token(Exchanged.token.access_token, time).kind = "return"

\* C3: with no user in the session, a callback whose exchange failed or
\* whose access token was not accepted answers 401 and leaves the session
\* without a user; a user appears only through a callback whose exchange
\* succeeded and whose token validated.
C3_FailedCallbackLeavesAnonymous ==
  [][ /\ (session.user = Absent /\ session'.user # Absent)
           => (resp'.route = "/callback" /\ ExchangeValidated(now)')
      /\ (session.user = Absent /\ resp'.route = "/callback" /\ ~ExchangeValidated(now)')
           => (resp'.status = 401 /\ session'.user = Absent) ]_vars

\* an anonymous browser was refused on a token that failed validation
C3_Witness ==
  /\ resp.route = "/callback" /\ resp.status = 401
  /\ session.user = Absent
  /\ Exchanged.kind = "token"
  /\ "access_token" \in DOMAIN Exchanged.token

\* C4: every /logout ends with the whole session cleared and a redirect to
\* the provider's logout endpoint, whatever the lookups and the backend did.
C4_LogoutAlwaysClears ==
  resp.route = "/logout" =>
    /\ session = EmptySession
    /\ resp = Redirect("/logout", LOGOUT_URL)

\* the backend could not be reached for the deletion, the session is cleared
C4_Witness ==
  /\ resp.route = "/logout"
  /\ session = EmptySession
  /\ \E i \in DOMAIN trace : /\ trace[i].to = "backend"
                             /\ trace[i].result.kind = "unreachable"

\* the stored token validates at the given time
Authenticated(sess, time) ==
  /\ sess.user # Absent
  /\ validate_token(Val(sess.user).token.access_token, time).kind = "return"

IsBackendCall(e, op) == e.to = "backend" /\ e.op = op

\* C5: whenever /logout is served on a session that holds a handle (and no
\* Management API call of the request failed), a backend DELETE
\* /delete_session for the session's user precedes the clearing.
C5_LogoutDeletesBeforeClearing ==
  [][ ( /\ resp'.route = "/logout"
        /\ session.simulation_session # None
        /\ \A k \in DOMAIN trace' : trace'[k].to = "mgmt" => trace'[k].result = "ok" )
      => \E i, j \in DOMAIN trace' :
           /\ i < j
           /\ IsBackendCall(trace'[i], "DELETE /delete_session")
           /\ trace'[i].user = MailOf(StoredToken.sub)
           /\ trace'[j].to = "session" ]_vars

\* C6: a stored handle implies a user in the session, and the handle was
\* stored by a start under the login that the session now holds.
C6_HandleBelongsToSession ==
  session.simulation_session # None =>
    /\ session.user # Absent
    /\ handleLogin = "current"

ProxyRoutes == {"/api/start-simulation-session", "/get_session", "/delete_session"}

\* C7: a proxy request on a session with no user, or whose stored token does
\* not validate at that time, is answered 401 "Not authenticated", makes no
\* call to the backend or the Management API and leaves the session as it was.
C7_UnauthenticatedProxyRefused ==
  [][ (resp'.route \in ProxyRoutes /\ ~Authenticated(session, now)) =>
        /\ resp' = NotAuthenticated(resp'.route)
        /\ trace' = <<>>
        /\ session' = session ]_vars

\* a session whose token was accepted at login is refused once it has expired
C7_Witness ==
  /\ resp = NotAuthenticated("/api/start-simulation-session")
  /\ session.user # Absent
  /\ StoredToken.exp < now

\* C8: when start reaches the backend, the answer follows the backend's: 200
\* stores the returned handle and returns it with 200; status s with body b
\* returns s with "Backend service returned s: b"; no answer returns 503.
C8_StartFollowsBackend ==
  (resp.route = "/api/start-simulation-session" /\ trace # <<>>
     /\ IsBackendCall(trace[Len(trace)], "POST /start_session")) =>
    LET call == trace[Len(trace)]
        b == call.result
    IN /\ call.user # None
       /\ b.kind = "ok" =>
            /\ resp = Resp(resp.route, 200, [session_data |-> b.data])
            /\ session.simulation_session = b.data
       /\ b.kind = "error" =>
            resp = Resp(resp.route, b.status,
                        [error |-> <<"Backend service returned ", b.status, ": ", b.text>>])
       /\ b.kind = "unreachable" => resp.status = 503

\* the backend answered 500 "db down"
C8_Witness ==
  resp = Resp("/api/start-simulation-session", 500,
              [error |-> <<"Backend service returned ", 500, ": ", "db down">>])

DeleteSucceeded == Resp("/delete_session", 200, [status |-> "success"])

\* C9 as stated: a /delete_session on an authenticated session that holds a
\* handle answers success and leaves no handle.
C9_FirstDeleteSucceeds ==
  [][ ( /\ resp'.route = "/delete_session"
        /\ Authenticated(session, now)
        /\ session.simulation_session # None )
      => (resp' = DeleteSucceeded /\ session'.simulation_session = None) ]_vars

\* C9 amended: a /delete_session that the backend answers with 200 answers
\* success and leaves the session without a handle and otherwise as it was;
\* a /delete_session on a session without a handle leaves the session as it
\* was and answers 401, success, the backend's status or 503.
C9_DeleteTwice ==
  [][ resp'.route = "/delete_session" =>
        /\ ( /\ trace' # <<>>
             /\ IsBackendCall(trace'[Len(trace')], "DELETE /delete_session")
             /\ trace'[Len(trace')].result.kind = "ok" )
           => /\ resp' = DeleteSucceeded
              /\ session' = [session EXCEPT !.simulation_session = None]
        /\ session.simulation_session = None
           => /\ session' = session
              /\ \/ resp' = NotAuthenticated("/delete_session")
                 \/ resp' = DeleteSucceeded
                 \/ resp'.status = 503
                 \/ \E e \in BackendErrors :
                      resp' = Resp("/delete_session", e.status, BackendReturned(e)) ]_vars

\* the handle is gone after a successful delete, the user is still logged in
C9_Witness ==
  /\ resp = DeleteSucceeded
  /\ session.user # Absent
  /\ session.simulation_session = None
  /\ handleLogin = "none"

KeyIds == {jwks[i].kid : i \in DOMAIN jwks}

\* C10: validate_token returns claims only for a token whose key id is in
\* the key set, whose signature verifies under that key, with now < expiry
\* and the configured issuer and audience; a token signed by a key outside
\* the key set, an expired token and a token for another audience are each
\* returned as invalid.
C10_ValidateContract ==
  vout.kind \notin {"idle", "pending"} =>
    LET t == vin.token IN
    /\ vout.kind = "return" =>
         /\ t.form = "jws" /\ t.kid \in KeyIds /\ t.signer = t.kid
         /\ vin.time < t.exp
         /\ t.iss = AUTH0_ISSUER /\ t.aud = AUTH0_AUDIENCE
         /\ vout.value = Payload(t)
    /\ (t.form = "jws" /\ (t.signer \notin KeyIds \/ t.exp < vin.time
                            \/ t.aud # AUTH0_AUDIENCE))
         => vout = ReturnNone

\* C11: whatever token it is handed (malformed, no key id, unknown key id,
\* bad signature, rejected claims), validate_token returns to its caller,
\* with an explicit invalid result for each of those, and never raises.
C11_ValidateNeverRaises ==
  vout.kind \notin {"idle", "pending"} =>
    LET t == vin.token IN
    /\ vout.kind # "raise"
    /\ ( \/ t.form # "jws" \/ t.kid = None \/ t.kid \notin KeyIds
         \/ t.signer # t.kid \/ t.exp < vin.time
         \/ t.iss # AUTH0_ISSUER \/ t.aud # AUTH0_AUDIENCE )
         => vout = ReturnNone

\* the Authorization header of the /auth/info request just served
Presented == trace[1].result

\* the header has the form "Bearer <token>"
BearerHeader(h) ==
  /\ h.given /\ ~h.empty
  /\ Len(h.words) = 2
  /\ h.words[1] \in {"Bearer", "bearer"}

\* C12: /auth/info answers 200 only when the presented bearer token
\* validates, and the body is then the token's claims; a missing or
\* malformed Authorization header is answered 401; a token that fails
\* validation is answered with an error status, never 200.
C12_AuthInfoContract ==
  resp.route = "/auth/info" =>
    IF ~BearerHeader(Presented) THEN resp.status = 401
    ELSE LET checked == validate_token(Presented.words[2], now) IN
         IF checked.kind = "return"
         THEN resp = Resp("/auth/info", 200, [json |-> Present(checked.value)])
         ELSE resp.status \in {400, 401}

\* C13: every request, in every session state and for every outcome of the
\* external calls and of token validation, ends in a response the route
\* defines, never in an exception that leaves the view function.
C13_NoUnhandledFault ==
  "unhandled" \notin DOMAIN resp.body

\* C14: the browser's session holds at most one user entry, and whenever it
\* holds one, the stored permissions are the permissions claim (empty when
\* absent) of the access token stored in the same entry.
C14_PermissionsOfStoredToken ==
  /\ Len(session.user) <= 1
  /\ session.user # Absent =>
       /\ DOMAIN Val(session.user) = {"token", "permissions"}
       /\ Val(session.user).permissions =
            DictGet(Payload(StoredToken), "permissions", {})

\* a re-login: the callback succeeded on a session that already held a
\* handle from an earlier login, and stored a token without admin
C14_Witness ==
  /\ resp.route = "/callback" /\ resp.status = 302
  /\ handleLogin = "earlier"
  /\ Val(session.user).permissions = {"read:sim"}

\* C15: a successful /callback redirects to the return path pending in the
\* session, or to / when there is none, and leaves no pending path; and when
\* the /login that led to it recorded no path, it redirects to /, whatever
\* an earlier /login had recorded.
C15_ReturnPathOfThisLogin ==
  [][ (resp'.route = "/callback" /\ resp'.status = 302) =>
        /\ session'.return_to = None
        /\ resp'.body.location =
             IF session.return_to # None THEN session.return_to ELSE INDEX_URL
        /\ (resp.route = "/login" /\ trace[1].result = None)
             => resp'.body.location = INDEX_URL ]_vars

\* the request just served made a call to the Management API
CalledManagement == \E i \in DOMAIN trace : trace[i].to = "mgmt"

\* the guard's condition: the stored token validates now and claims admin
AdminNow ==
  /\ session.user # Absent
  /\ LET fresh == validate_token(StoredToken, now) IN
     /\ fresh.kind = "return"
     /\ "admin" \in DictGet(fresh.value, "permissions", {})

InvalidUserId ==
  Resp("/admin/delete-user", 400,
       [status |-> "error", message |-> "Invalid user ID format"])

\* C16: a delete-user request calls the Management API only if the guard
\* granted admin access and the user id matches ^[a-zA-Z0-9|_-]+$; an admin's
\* request with an id that does not match ("abc;rm") is answered 400
\* "Invalid user ID format" with no call; one with a matching id
\* ("auth0|123") goes on to the call.
C16_DeleteUserChecked ==
  resp.route = "/admin/delete-user" =>
    /\ CalledManagement => (AdminNow /\ Invoked /\ re_match(trace[1].arg))
    /\ AdminNow =>
         /\ Invoked
         /\ ~re_match(trace[1].arg) => (resp = InvalidUserId /\ ~CalledManagement)
         /\ re_match(trace[1].arg) => CalledManagement
         /\ trace[1].arg = <<"a", "b", "c", ";", "r", "m">> => resp = InvalidUserId
         /\ trace[1].arg = <<"a", "u", "t", "h", "0", "|", "1", "2", "3">>
              => CalledManagement

\* an admin asked to delete "abc;rm" and was answered 400
C16_Witness ==
  /\ resp = InvalidUserId
  /\ AdminNow
  /\ trace[1].arg = <<"a", "b", "c", ";", "r", "m">>

\* C17: when start, get, delete or logout is served on an authenticated
\* session whose token carries the email claim, the request makes no
\* Management API call and every backend call it makes names the claimed
\* email; the lookup by subject id happens only when the claim is absent.
C17_EmailClaimPreferred ==
  [][ ( /\ resp'.route \in ProxyRoutes \cup {"/logout"}
        /\ Authenticated(session, now)
        /\ Payload(StoredToken).email # None )
      => /\ \A i \in DOMAIN trace' : trace'[i].to # "mgmt"
         /\ \A i \in DOMAIN trace' :
              trace'[i].to = "backend" => trace'[i].user = Payload(StoredToken).email
    ]_vars

\* C18: every request that start, get or delete sends to the backend names
\* a resolved email; when no email could be resolved the backend is not
\* contacted and the answer is an error.
C18_BackendOnlyWithEmail ==
  resp.route \in ProxyRoutes =>
    \A i \in DOMAIN trace : trace[i].to = "backend" => trace[i].user # None

\* the backend answered the request just served with 200
BackendSaidOk ==
  /\ trace # <<>>
  /\ trace[Len(trace)].to = "backend"
  /\ trace[Len(trace)].result.kind = "ok"

\* C19: a start, get or delete request never touches the session's user
\* (token set and permissions) and never removes the session; it leaves the
\* whole session as it was unless the backend answered 200, in which case
\* start stores the returned handle, delete removes the handle and get
\* changes nothing.
C19_ProxyFrame ==
  [][ resp'.route \in ProxyRoutes =>
        /\ session'.user = session.user
        /\ session'.return_to = session.return_to
        /\ ~BackendSaidOk' => session' = session
        /\ resp'.route = "/get_session" => session' = session
        /\ (BackendSaidOk' /\ resp'.route = "/api/start-simulation-session")
             => session' = [session EXCEPT
                              !.simulation_session = trace'[Len(trace')].result.data]
        /\ (BackendSaidOk' /\ resp'.route = "/delete_session")
             => session' = [session EXCEPT !.simulation_session = None] ]_vars

\* the backend refused a delete: the user and the handle are still there
C19_Witness ==
  /\ resp.route = "/delete_session"
  /\ resp.body = BackendReturned([status |-> 500, text |-> "db down"])
  /\ session.user # Absent
  /\ session.simulation_session # None

\* C20: a start and a logout of the same browser are not serialized: a start
\* that is ready to POST can always do so, wherever the logout stands; and
\* once its POST has succeeded after the logout's DELETE (or after the
\* logout skipped it), the backend keeps a simulation session for that user,
\* also when the browser's session ends up cleared.
C20_StartNotSerialized ==
  /\ reqPc.start = "post" => ENABLED StartPost
  /\ (startAfterDelete /\ reqPc.start \in {"respond", "done"})
       => reqEmail.start \in backendSessions

\* both requests are over, the POST succeeded after the DELETE or its
\* skipping, the browser's session is cleared and the backend still holds a
\* simulation session for the user
C20_Witness ==
  /\ reqPc = [logout |-> "done", start |-> "done"]
  /\ startAfterDelete
  /\ session = EmptySession
  /\ reqEmail.start \in backendSessions

====
